---- MODULE Spec2Model ----
(***************************************************************************)
(* A model of the option compiler and conversion driver of the             *)
(* python-video-converter library:                                         *)
(*   converter/avcodecs.py   VideoCodec._aspect_corrections                *)
(*   converter/__init__.py   Converter.parse_options, Converter.convert    *)
(*                                                                         *)
(*   converter/avcodecs.py   the codec compilers' parse_options            *)
(*                                                                         *)
(* Four specifications share the module:                                   *)
(*   SpecGeom   calls VideoCodec._aspect_corrections on bounded inputs     *)
(*   SpecCodec  calls one codec compiler's parse_options on bounded maps   *)
(*   SpecParse  calls Converter.parse_options on bounded requests, twice   *)
(*   Spec       drives the generator Converter.convert step by step        *)
(***************************************************************************)
EXTENDS Integers, Sequences, FiniteSets, TLC

VARIABLES
    gcall,      \* SpecGeom: the arguments of one _aspect_corrections call
    gret,       \* SpecGeom: what the call returned or raised
    preq,       \* SpecParse: the request dict object handed to parse_options
    preq0,      \* SpecParse: the contents of that dict before the call
    ppass,      \* SpecParse: the twopass argument
    pret,       \* SpecParse: what parse_options returned or raised
    pret2,      \* SpecParse: what a second call on the same object returned or raised
    kcall,      \* SpecCodec: the compiler class and the option map of one call
    kret,       \* SpecCodec: what the compiler's parse_options returned or raised
    pc,         \* Spec: the statement the convert generator is at
    caller,     \* Spec: content of the caller's options dict object
    caller0,    \* Spec: content of the caller's options dict at the call
    options,    \* Spec: content of the dict the local name `options` is bound to
    aliased,    \* Spec: the local `options` is the caller's object (no copy made)
    twopass,    \* Spec: the twopass argument of convert
    exists,     \* Spec: os.path.exists(infile)
    info,       \* Spec: the local `info`, the result of the probe
    curpass,    \* Spec: the pass being compiled or run (0: single pass)
    spawns,     \* Spec: the subprocesses spawned so far, in order
    optlists,   \* Spec: the argument lists compiled so far, in order
    engine,     \* Spec: the engine subprocess of the current pass
    yields,     \* Spec: the percentages delivered to the consumer so far
    raised,     \* Spec: the exception that left the generator, "none" if none
    raisedAt    \* Spec: the statement that raised it

gvars == <<gcall, gret>>
pvars == <<preq, preq0, ppass, pret, pret2>>
kvars == <<kcall, kret>>
cvars == <<pc, caller, caller0, options, aliased, twopass, exists, info, curpass,
           spawns, optlists, engine, yields, raised, raisedAt>>
vars == <<gcall, gret, preq, preq0, ppass, pret, pret2, kcall, kret, pc, caller, caller0, options,
          aliased, twopass, exists, info, curpass, spawns, optlists, engine,
          yields, raised, raisedAt>>

(***************************************************************************)
(* Bounds of the model.                                                    *)
(***************************************************************************)
MaxSrc == 9         \* source width and height range over 0..MaxSrc
MaxStreams == 2     \* entries of an audio or subtitle mapping, ordinals 0..MaxStreams-1
MaxDuration == 3    \* probed durations range over 0..MaxDuration ticks of 5 ms
MaxTime == 4        \* elapsed times the engine reports range over 0..MaxTime ticks
MaxYields == 3      \* progress values delivered in one run of convert
DimSpan == 5        \* target width/height range over 16..16+DimSpan (or absent)

(***************************************************************************)
(* Program constants.                                                      *)
(***************************************************************************)
MinWidth == 16
MaxWidth == 4000
MinHeight == 16
MaxHeight == 3000

(***************************************************************************)
(* Floating point.  The code computes aspect = (1.0*sw)/(1.0*sh) and then  *)
(* int(aspect * h) and int(w / aspect).  The real value of each expression *)
(* is the rational sw*h/sh, resp. w*sh/sw.  When that rational is not an   *)
(* integer it is at least 1/sh (1/sw) away from one, far more than the     *)
(* rounding error of a double, so int() gives its floor.  When it is an    *)
(* integer k, the double may come out just below k and int() then gives    *)
(* k-1: int((1.0*18)/(9.0/7.0)) is 13, not 14.  The two sets below list    *)
(* every such case of IEEE-754 double arithmetic with sw, sh in 1..16 and  *)
(* the other operand in 1..40; the model's dimensions stay inside that     *)
(* range.                                                                  *)
(***************************************************************************)
\* <<sw, sh, h>> with int(aspect * h) = sw*h/sh - 1
ProductShort ==
    { <<13, 3, 27>>, <<15, 11, 11>>, <<15, 11, 22>>, <<15, 13, 13>>,
      <<15, 13, 26>>, <<15, 13, 39>> }

\* <<sw, sh, w>> with int(w / aspect) = w*sh/sw - 1
QuotientShort ==
    { <<7, 3, 35>>, <<7, 6, 35>>, <<7, 12, 35>>, <<9, 7, 9>>, <<9, 7, 18>>,
      <<9, 7, 36>>, <<9, 14, 9>>, <<9, 14, 18>>, <<9, 14, 36>>, <<11, 5, 33>>,
      <<11, 9, 33>>, <<11, 10, 33>>, <<14, 6, 35>>, <<14, 12, 35>> }

\* int(x) of a double x >= 0 whose real value is num/den; `short`: the
\* double fell just below an integer real value
FloatInt(num, den, short) ==
    IF short THEN (num \div den) - 1 ELSE num \div den

\* int(aspect * h)
AspectTimes(sw, sh, h) == FloatInt(sw * h, sh, <<sw, sh, h>> \in ProductShort)

\* int(w / aspect)
OverAspect(sw, sh, w) == FloatInt(w * sh, sw, <<sw, sh, w>> \in QuotientShort)

(***************************************************************************)
(* VideoCodec._aspect_corrections.  None is modelled as 0: the code only   *)
(* tests the dimensions with `not`, which treats None and 0 alike.  A      *)
(* filter 'crop=%d:%d:%d:%d' is the record of its name and four numbers;   *)
(* '%d' truncates the offset (h0 - h) / 2.                                 *)
(***************************************************************************)
NoFilter == [name |-> "None", w |-> 0, h |-> 0, x |-> 0, y |-> 0]

Filter(name, w, h, x, y) == [name |-> name, w |-> w, h |-> h, x |-> x, y |-> y]

GeomReturn(w, h, filters) == [raised |-> "none", w |-> w, h |-> h, filters |-> filters]

GeomAssert == [raised |-> "AssertionError", w |-> 0, h |-> 0, filters |-> NoFilter]

\* target_aspect > aspect, on the exact rationals w/h and sw/sh
TargetAspectGreater(sw, sh, w, h) == w * sh > sw * h

\* the comparison of line 179 turned round
TargetAspectLessInverted(sw, sh, w, h) == w * sh > sw * h

\* target_aspect < aspect
TargetAspectLess(sw, sh, w, h) == w * sh < sw * h

crop_branch(sw, sh, w, h) ==
    IF TargetAspectGreater(sw, sh, w, h)
    THEN LET h0 == OverAspect(sw, sh, w)
             dh == (h0 - h) \div 2
         IN  IF h0 > h THEN GeomReturn(w, h0, Filter("crop", w, h, 0, dh))
                       ELSE GeomAssert
    ELSE LET w0 == AspectTimes(sw, sh, h)
             dw == (w0 - w) \div 2
         IN  IF w0 > w THEN GeomReturn(w0, h, Filter("crop", w, h, dw, 0))
                       ELSE GeomAssert

pad_branch(sw, sh, w, h) ==
    IF TargetAspectLess(sw, sh, w, h)
    THEN LET h1 == OverAspect(sw, sh, w)
             dh == (h - h1) \div 2
         IN  IF h1 < h THEN GeomReturn(w, h1, Filter("pad", w, h, 0, dh))
                       ELSE GeomAssert
    ELSE LET w1 == AspectTimes(sw, sh, h)
             dw == (w - w1) \div 2
         IN  IF w1 < w THEN GeomReturn(w1, h, Filter("pad", w, h, dw, 0))
                       ELSE GeomAssert

\* round(x) of Python 3 for the rational x = num/den >= 0: half to even
Round(num, den) ==
    LET q == num \div den
        r2 == 2 * (num % den)
    IN  IF r2 < den THEN q
        ELSE IF r2 > den THEN q + 1
        ELSE IF q % 2 = 0 THEN q ELSE q + 1

\* the test of line 156 with round() in place of int()
SameAspectRounded(sw, sh, w, h) == Round(sw * h, sh) = w

\* the test `int(aspect * h) == w` of line 156
SameAspect(sw, sh, w, h) == AspectTimes(sw, sh, h) = w

aspect_corrections(sw, sh, w, h, mode) ==
    IF sw = 0 \/ sh = 0 THEN GeomReturn(w, h, NoFilter)
    ELSE IF w = 0 /\ h = 0 THEN GeomReturn(w, h, NoFilter)
    ELSE IF w # 0 /\ h = 0 THEN GeomReturn(w, OverAspect(sw, sh, w), NoFilter)
    ELSE IF h # 0 /\ w = 0 THEN GeomReturn(AspectTimes(sw, sh, h), h, NoFilter)
    ELSE IF SameAspect(sw, sh, w, h) THEN GeomReturn(w, h, NoFilter)
    ELSE IF mode = "stretch" THEN GeomReturn(w, h, NoFilter)
    ELSE IF mode = "crop" THEN crop_branch(sw, sh, w, h)
    ELSE IF mode = "pad" THEN pad_branch(sw, sh, w, h)
    ELSE GeomAssert

(***************************************************************************)
(* Variables of a specification that another specification does not use    *)
(* stay at "idle".                                                         *)
(***************************************************************************)
GeomIdle == gcall = "idle" /\ gret = "idle"

ParseIdle ==
    /\ preq = "idle" /\ preq0 = "idle" /\ ppass = "idle" /\ pret = "idle"
    /\ pret2 = "idle"

CodecIdle == kcall = "idle" /\ kret = "idle"

ConvertIdle ==
    /\ pc = "idle" /\ caller = "idle" /\ caller0 = "idle" /\ options = "idle"
    /\ aliased = "idle" /\ twopass = "idle" /\ exists = "idle" /\ info = "idle"
    /\ curpass = "idle" /\ spawns = "idle" /\ optlists = "idle" /\ engine = "idle"
    /\ yields = "idle" /\ raised = "idle" /\ raisedAt = "idle"

(***************************************************************************)
(* SpecGeom: one call of _aspect_corrections(sw, sh, w, h, mode).          *)
(***************************************************************************)
Modes == {"stretch", "crop", "pad"}

SourceDims == 0 .. MaxSrc

TargetWidths == {0} \cup (MinWidth .. MinWidth + DimSpan)

TargetHeights == {0} \cup (MinHeight .. MinHeight + DimSpan)

NotCalled == [raised |-> "pending", w |-> 0, h |-> 0, filters |-> NoFilter]

InitGeom ==
    /\ \E sw \in SourceDims, sh \in SourceDims, w \in TargetWidths,
          h \in TargetHeights, mode \in Modes :
             gcall = [sw |-> sw, sh |-> sh, w |-> w, h |-> h, mode |-> mode]
    /\ gret = NotCalled
    /\ ParseIdle
    /\ CodecIdle
    /\ ConvertIdle

AspectCorrections ==
    /\ gret = NotCalled
    /\ gret' = aspect_corrections(gcall.sw, gcall.sh, gcall.w, gcall.h, gcall.mode)
    /\ UNCHANGED <<gcall, pvars, cvars, kvars>>

NextGeom == AspectCorrections

SpecGeom == InitGeom /\ [][NextGeom]_vars

GeomCalled == gret.raised # "pending"

\* both source dimensions known, both target dimensions given, and the
\* code's test int(aspect*h) == w failed: the call gets past line 160
PastSameAspect ==
    /\ gcall.sw > 0 /\ gcall.sh > 0 /\ gcall.w # 0 /\ gcall.h # 0
    /\ AspectTimes(gcall.sw, gcall.sh, gcall.h) # gcall.w

\* the result: one dimension is the target's, the other (the intermediate)
\* differs from the target's by `sign`, and the filter centres the target
CentredOn(name, sign) ==
    \/ /\ gret.w = gcall.w
       /\ sign * (gret.h - gcall.h) > 0
       /\ gret.filters = Filter(name, gcall.w, gcall.h, 0,
                                (sign * (gret.h - gcall.h)) \div 2)
    \/ /\ gret.h = gcall.h
       /\ sign * (gret.w - gcall.w) > 0
       /\ gret.filters = Filter(name, gcall.w, gcall.h,
                                (sign * (gret.w - gcall.w)) \div 2, 0)

\* C8: in crop mode every call that reaches the crop branch returns (no
\* assertion fails) with an intermediate dimension strictly greater than the
\* target's and the crop offset (intermediate - target) / 2, truncated.
C8_CropExceedsTarget ==
    (GeomCalled /\ gcall.mode = "crop" /\ PastSameAspect)
        => (gret.raised = "none" /\ CentredOn("crop", 1))

\* C9: in pad mode every call that reaches the pad branch returns (no
\* assertion fails) with an intermediate dimension strictly less than the
\* target's and the pad offset (target - intermediate) / 2, truncated.
C9_PadBelowTarget ==
    (GeomCalled /\ gcall.mode = "pad" /\ PastSameAspect)
        => (gret.raised = "none" /\ CentredOn("pad", -1))

\* a pad call returned on each side of the branch, one of them with an odd
\* difference (the offset is truncated)
C9_Witness ==
    /\ GeomCalled /\ gcall.mode = "pad" /\ PastSameAspect
    /\ gret.filters.name = "pad"
    /\ gret.w < gcall.w
    /\ (gcall.w - gret.w) % 2 = 1

Unchanged == gret = GeomReturn(gcall.w, gcall.h, NoFilter)

\* C10 as stated: the target dimensions come back unchanged with no filter
\* whenever the mode is stretch, and in every mode whenever both target
\* dimensions are given and round(aspect*h) == w.
C10_UnchangedWhenStretchOrRound ==
    GeomCalled =>
        /\ (gcall.mode = "stretch" => Unchanged)
        /\ (/\ gcall.sw > 0 /\ gcall.sh > 0 /\ gcall.w # 0 /\ gcall.h # 0
            /\ Round(gcall.sw * gcall.h, gcall.sh) = gcall.w) => Unchanged

\* C10 amended: in stretch mode no filter is produced and every given target
\* dimension comes back unchanged (one that is not given may be derived);
\* in every mode, when both target dimensions are given and the truncation
\* int(aspect*h) equals w, both come back unchanged with no filter.
C10_UnchangedWhenStretchOrTrunc ==
    GeomCalled =>
        /\ gcall.mode = "stretch" =>
              /\ gret.raised = "none"
              /\ gret.filters = NoFilter
              /\ (gcall.w # 0 => gret.w = gcall.w)
              /\ (gcall.h # 0 => gret.h = gcall.h)
        /\ (/\ gcall.sw > 0 /\ gcall.sh > 0 /\ gcall.w # 0 /\ gcall.h # 0
            /\ AspectTimes(gcall.sw, gcall.sh, gcall.h) = gcall.w)
              => Unchanged

\* a crop call whose dimensions pass the truncating test although
\* aspect*h is not w, returned unchanged
C10_Witness ==
    /\ GeomCalled /\ gcall.mode = "crop"
    /\ gcall.sw > 0 /\ gcall.sh > 0 /\ gcall.w # 0 /\ gcall.h # 0
    /\ gcall.sw * gcall.h # gcall.w * gcall.sh
    /\ AspectTimes(gcall.sw, gcall.sh, gcall.h) = gcall.w
    /\ Unchanged

(***************************************************************************)
(* Python values.  A value carries its type in the field t, so that the    *)
(* code's isinstance tests can be modelled.  A dict is the sequence of its *)
(* <<key, value>> items in insertion order (the order `for n in y` and     *)
(* y.values() follow); a key is a string or an int.                        *)
(***************************************************************************)
PyNone == [t |-> "none"]

PyStr(s) == [t |-> "str", s |-> s]

PyInt(i) == [t |-> "int", i |-> i]

PyDict(items) == [t |-> "dict", items |-> items]

IsDict(v) == v.t = "dict"

\* the dict whose keys are the strings given: {'k1': v1, 'k2': v2, ...}
StrDict(items) == PyDict([i \in 1 .. Len(items) |-> <<PyStr(items[i][1]), items[i][2]>>])

\* k in d, for a string k
Has(d, k) == \E i \in 1 .. Len(d.items) : d.items[i][1] = PyStr(k)

\* d[k], for a string k
Get(d, k) == d.items[CHOOSE i \in 1 .. Len(d.items) : d.items[i][1] = PyStr(k)][2]

\* d[k] = v, for a string k (in place: the result is the new content of the
\* same object)
Put(d, k, v) ==
    IF Has(d, k)
    THEN PyDict([i \in 1 .. Len(d.items) |->
                    IF d.items[i][1] = PyStr(k) THEN <<PyStr(k), v>> ELSE d.items[i]])
    ELSE PyDict(Append(d.items, <<PyStr(k), v>>))

\* the string keys of d
Keys(d) == {d.items[i][1].s : i \in {j \in 1 .. Len(d.items) : d.items[j][1].t = "str"}}

(***************************************************************************)
(* BaseCodec.safe_options: keep the options the schema knows, coerced to   *)
(* the schema's type; an option whose coercion raises is dropped.          *)
(***************************************************************************)
\* the strings int() accepts, among those the model uses, with their values
NumeralValue ==
    ("0" :> 0) @@ ("1" :> 1) @@ ("20" :> 20) @@ ("25" :> 25) @@ ("64" :> 64)

\* typ(v) does not raise
Coercible(typ, v) ==
    IF typ = "int"
    THEN v.t = "int" \/ (v.t = "str" /\ v.s \in DOMAIN NumeralValue)
    ELSE TRUE

\* typ(v)
Coerce(typ, v) ==
    IF typ = "int"
    THEN IF v.t = "int" THEN v.i ELSE NumeralValue[v.s]
    ELSE IF v.t = "str" THEN v.s
         ELSE IF v.t = "int" THEN ToString(v.i)
         ELSE IF v.t = "none" THEN "None" ELSE "{...}"

safe_options(schema, opts) ==
    LET kept == {k \in Keys(opts) : k \in DOMAIN schema /\ Coercible(schema[k], Get(opts, k))}
    IN  [k \in kept |-> Coerce(schema[k], Get(opts, k))]

\* del safe[k]
Del(safe, k) == [j \in DOMAIN safe \ {k} |-> safe[j]]

\* the range test with the bounds themselves excluded
DropOutOfRangeExclusive(safe, k, lo, hi) ==
    IF k \in DOMAIN safe /\ (safe[k] <= lo \/ safe[k] >= hi) THEN Del(safe, k) ELSE safe

\* `if k in safe: v = safe[k]; if v < lo or v > hi: del safe[k]`
DropOutOfRange(safe, k, lo, hi) ==
    IF k \in DOMAIN safe /\ (safe[k] < lo \/ safe[k] > hi) THEN Del(safe, k) ELSE safe

(***************************************************************************)
(* Audio codecs.                                                           *)
(***************************************************************************)
MinChannels == 1
MaxChannels == 12
MinAudioBitrate == 8
MaxAudioBitrate == 512
MinSamplerate == 1000
MaxSamplerate == 50000

AudioEncoderOptions ==
    [k \in {"codec", "channels", "bitrate", "samplerate"} |->
        IF k = "codec" THEN "str" ELSE "int"]

\* codec_name -> ffmpeg_codec_name of the AudioCodec subclasses
AudioFfmpegName ==
    ("vorbis" :> "libvorbis") @@ ("aac" :> "aac") @@ ("mp3" :> "libmp3lame")
        @@ ("mp2" :> "mp2") @@ ("libfdk_aac" :> "libfdk_aac")

\* encoder_options of the subclass
AudioSchema(name) ==
    IF name = "vorbis"
    THEN [k \in DOMAIN AudioEncoderOptions \cup {"quality"} |->
             IF k = "quality" THEN "int" ELSE AudioEncoderOptions[k]]
    ELSE AudioEncoderOptions

\* _codec_specific_produce_ffmpeg_list of the subclass
AudioSpecificList(name, safe) ==
    IF name = "vorbis"
    THEN IF "quality" \in DOMAIN safe THEN <<"-qscale:a", safe["quality"]>> ELSE <<>>
    ELSE IF name = "aac" THEN <<"-strict", "experimental">>
    ELSE <<>>

\* AudioCodec.parse_options of the subclass called `name`, on a spec whose
\* 'codec' is `name` (Converter picks the class by that key)
AudioCodec_parse_options(name, opt) ==
    LET safe0 == safe_options(AudioSchema(name), opt)
        safe1 == DropOutOfRange(safe0, "channels", MinChannels, MaxChannels)
        safe2 == DropOutOfRange(safe1, "bitrate", MinAudioBitrate, MaxAudioBitrate)
        safe == DropOutOfRange(safe2, "samplerate", MinSamplerate, MaxSamplerate)
    IN  <<"-acodec", AudioFfmpegName[name]>>
        \o (IF "channels" \in DOMAIN safe
            THEN <<"-ac", ToString(safe["channels"])>> ELSE <<>>)
        \o (IF "bitrate" \in DOMAIN safe
            THEN <<"-ab", ToString(safe["bitrate"]) \o "k">> ELSE <<>>)
        \o (IF "samplerate" \in DOMAIN safe
            THEN <<"-ar", ToString(safe["samplerate"])>> ELSE <<>>)
        \o AudioSpecificList(name, safe)

\* c in self.audio_codecs
IsAudioCodec(c) ==
    \/ c.t = "none"
    \/ c.t = "str" /\ (c.s = "copy" \/ c.s \in DOMAIN AudioFfmpegName)

\* self.audio_codecs[c]().parse_options(x, n); the compilers of avcodecs.py
\* do not use the stream ordinal n
AudioCompile(c, x, n) ==
    IF c.t = "none" THEN <<"-an">>
    ELSE IF c.s = "copy" THEN <<"-acodec", "copy">>
    ELSE AudioCodec_parse_options(c.s, x)

(***************************************************************************)
(* Video codecs.                                                           *)
(***************************************************************************)
MinFps == 1
MaxFps == 120
MinVideoBitrate == 16
MaxVideoBitrate == 15000

VideoEncoderOptions ==
    [k \in {"codec", "bitrate", "fps", "width", "height", "mode", "src_width",
            "src_height"} |->
        IF k \in {"codec", "mode"} THEN "str" ELSE "int"]

\* codec_name -> ffmpeg_codec_name of the VideoCodec subclasses
VideoFfmpegName ==
    ("theora" :> "libtheora") @@ ("h264" :> "libx264") @@ ("divx" :> "mpeg4")
        @@ ("vp8" :> "libvpx") @@ ("h263" :> "h263") @@ ("flv" :> "flv")
        @@ ("mpeg1" :> "mpeg1video") @@ ("mpeg2" :> "mpeg2video")

\* the subclasses of MpegCodec
MpegFamily == {"mpeg1", "mpeg2"}

\* encoder_options of the subclass
VideoSchema(name) ==
    LET extra == IF name = "theora" THEN {"quality"}
                 ELSE IF name = "h264" THEN {"preset", "quality", "profile", "tune"}
                 ELSE {}
    IN  [k \in DOMAIN VideoEncoderOptions \cup extra |->
            IF k \in DOMAIN VideoEncoderOptions THEN VideoEncoderOptions[k]
            ELSE IF k = "quality" THEN "int" ELSE "str"]

\* _codec_specific_produce_ffmpeg_list of the subclass
VideoSpecificList(name, safe) ==
    IF name = "theora"
    THEN IF "quality" \in DOMAIN safe THEN <<"-qscale:v", safe["quality"]>> ELSE <<>>
    ELSE IF name = "h264"
    THEN (IF "preset" \in DOMAIN safe THEN <<"-preset", safe["preset"]>> ELSE <<>>)
         \o (IF "quality" \in DOMAIN safe THEN <<"-crf", safe["quality"]>> ELSE <<>>)
         \o (IF "profile" \in DOMAIN safe THEN <<"-profile", safe["profile"]>> ELSE <<>>)
         \o (IF "tune" \in DOMAIN safe THEN <<"-tune", safe["tune"]>> ELSE <<>>)
    ELSE <<>>

\* '%d:%d' % (w, h) and '%dx%d' % (w, h)
Pair(w, sep, h) == ToString(w) \o sep \o ToString(h)

\* the filter expression as the string the code formats; "" stands for None
FilterString(f) ==
    IF f = NoFilter THEN ""
    ELSE f.name \o "=" \o ToString(f.w) \o ":" \o ToString(f.h) \o ":"
         \o ToString(f.x) \o ":" \o ToString(f.y)

\* the aspect filter put after the crop or pad filter
codec_specific_filters_appended(name, w, h, filters) ==
    IF name \in MpegFamily /\ w # 0 /\ h # 0
    THEN IF filters = "" THEN "aspect=" \o Pair(w, ":", h)
         ELSE filters \o "," \o "aspect=" \o Pair(w, ":", h)
    ELSE filters

\* MpegCodec._codec_specific_parse_options on safe['aspect_filters'];
\* the other codecs keep BaseCodec's, which returns safe as it is
codec_specific_filters(name, w, h, filters) ==
    IF name \in MpegFamily /\ w # 0 /\ h # 0
    THEN IF filters = "" THEN "aspect=" \o Pair(w, ":", h)
         ELSE "aspect=" \o Pair(w, ":", h) \o "," \o filters
    ELSE filters

Compiled(list) == [raised |-> "none", list |-> list]

CompileRaised(exc) == [raised |-> exc, list |-> <<>>]

\* VideoCodec.parse_options of the subclass called `name`
VideoCodec_parse_options(name, opt) ==
    LET safe0 == safe_options(VideoSchema(name), opt)
        safe1 == DropOutOfRange(safe0, "fps", MinFps, MaxFps)
        safe == DropOutOfRange(safe1, "bitrate", MinVideoBitrate, MaxVideoBitrate)
        w == IF "width" \in DOMAIN safe
                /\ ~(safe["width"] < MinWidth \/ safe["width"] > MaxWidth)
             THEN safe["width"] ELSE 0
        h == IF "height" \in DOMAIN safe
                /\ ~(safe["height"] < MinHeight \/ safe["height"] > MaxHeight)
             THEN safe["height"] ELSE 0
        known == /\ "src_width" \in DOMAIN safe /\ "src_height" \in DOMAIN safe
                 /\ safe["src_width"] # 0 /\ safe["src_height"] # 0
        sw == IF known THEN safe["src_width"] ELSE 0
        sh == IF known THEN safe["src_height"] ELSE 0
        mode == IF "mode" \in DOMAIN safe /\ safe["mode"] \in {"stretch", "crop", "pad"}
                THEN safe["mode"] ELSE "stretch"
        geom == aspect_corrections(sw, sh, w, h, mode)
        filters == codec_specific_filters(name, geom.w, geom.h, FilterString(geom.filters))
    IN  IF geom.raised # "none" THEN CompileRaised(geom.raised)
        ELSE Compiled(
            <<"-vcodec", VideoFfmpegName[name]>>
            \o (IF "fps" \in DOMAIN safe THEN <<"-r", ToString(safe["fps"])>> ELSE <<>>)
            \o (IF "bitrate" \in DOMAIN safe
                THEN <<"-vb", ToString(safe["bitrate"]) \o "k">> ELSE <<>>)
            \o (IF geom.w # 0 /\ geom.h # 0
                THEN <<"-s", Pair(geom.w, "x", geom.h)>>
                     \o (IF w # 0 /\ h # 0 THEN <<"-aspect", Pair(w, ":", h)>> ELSE <<>>)
                ELSE <<>>)
            \o (IF filters # "" THEN <<"-vf", filters>> ELSE <<>>)
            \o VideoSpecificList(name, safe))

\* c in self.video_codecs
IsVideoCodec(c) ==
    \/ c.t = "none"
    \/ c.t = "str" /\ (c.s = "copy" \/ c.s \in DOMAIN VideoFfmpegName)

\* self.video_codecs[c]().parse_options(x)
VideoCompile(c, x) ==
    IF c.t = "none" THEN Compiled(<<"-vn">>)
    ELSE IF c.s = "copy" THEN Compiled(<<"-vcodec", "copy">>)
    ELSE VideoCodec_parse_options(c.s, x)

(***************************************************************************)
(* Subtitle codecs and container formats: converter/formats.py and the     *)
(* subtitle compilers are not among the sources; they are modelled from    *)
(* the specification (the null subtitle codec emits the disable flag, a    *)
(* format emits `-f <format>`).                                            *)
(***************************************************************************)
\* c in self.subtitle_codecs
IsSubtitleCodec(c) == c.t = "none"

\* self.subtitle_codecs[c]().parse_options(x, n)
SubtitleCompile(c, x, n) == <<"-sn">>

FormatNames == {"ogg", "mp3"}

\* f in self.formats
IsFormat(f) == f.t = "str" /\ f.s \in FormatNames

\* self.formats[f]().parse_options(opt)
FormatCompile(f) == <<"-f", f.s>>

(***************************************************************************)
(* Converter.parse_options(opt, twopass).  The result is the exception     *)
(* raised ("none" when the call returns), the list returned, and the       *)
(* content of the dict object `opt` when the call ends: the code assigns   *)
(* to opt['audio'] and opt['subtitle'].                                    *)
(***************************************************************************)
\* the return with the 'video' key taken out of the request on the way
\* (opt.pop('video') in place of opt['video'])
ParsedVideoPopped(optlist, opt) ==
    [raised |-> "none", optlist |-> optlist,
     opt |-> PyDict(SelectSeq(opt.items, LAMBDA it : it[1] # PyStr("video")))]

Parsed(optlist, opt) == [raised |-> "none", optlist |-> optlist, opt |-> opt]

ParseRaised(exc, opt) == [raised |-> exc, optlist |-> <<>>, opt |-> opt]

\* {'codec': None}
NullSpec == StrDict(<< <<"codec", PyNone>> >>)

\* lines 75-79 with the copy codec as the default of a missing 'audio'
FillDefaultsAudioCopy(opt) ==
    LET o1 == IF ~Has(opt, "audio")
              THEN Put(opt, "audio", StrDict(<< <<"codec", PyStr("copy")>> >>))
              ELSE opt
    IN  IF ~Has(o1, "subtitle") THEN Put(o1, "subtitle", NullSpec) ELSE o1

\* lines 75-79: `if 'audio' not in opt: opt['audio'] = {'codec': None}`,
\* and the same for 'subtitle'
FillDefaults(opt) ==
    LET o1 == IF ~Has(opt, "audio") THEN Put(opt, "audio", NullSpec) ELSE opt
    IN  IF ~Has(o1, "subtitle") THEN Put(o1, "subtitle", NullSpec) ELSE o1

\* lines 85-90: a spec whose first value is no dict becomes {0: spec};
\* an empty dict (IndexError) and a mapping are kept
Normalized(y) ==
    IF Len(y.items) = 0 THEN y
    ELSE IF ~IsDict(y.items[1][2]) THEN PyDict(<< <<PyInt(0), y>> >>)
    ELSE y

\* the checks of one entry x of the audio or subtitle mapping, lines 95-106
EntryError(kind, x) ==
    IF ~IsDict(x) THEN TRUE
    ELSE IF ~Has(x, "codec") THEN TRUE
    ELSE IF Has(x, "path") /\ ~Has(x, "source") THEN TRUE
    ELSE IF Has(x, "source") /\ ~Has(x, "path") THEN TRUE
    ELSE IF kind = "audio" THEN ~IsAudioCodec(Get(x, "codec"))
    ELSE ~IsSubtitleCodec(Get(x, "codec"))

EntryCompile(kind, x, n) ==
    IF kind = "audio" THEN AudioCompile(Get(x, "codec"), x, n)
    ELSE SubtitleCompile(Get(x, "codec"), x, n)

\* `for n in y:` from item i on, extending the list acc
RECURSIVE StreamLoop(_, _, _, _)
StreamLoop(kind, items, i, acc) ==
    IF i > Len(items) THEN Compiled(acc)
    ELSE IF EntryError(kind, items[i][2]) THEN CompileRaised("ConverterError")
    ELSE StreamLoop(kind, items, i + 1,
                    acc \o EntryCompile(kind, items[i][2], items[i][1]))

\* lines 81-110 (audio) and 112-140 (subtitle); y.values() of a value that
\* is no dict raises AttributeError
StreamOptions(kind, y) ==
    IF ~IsDict(y) THEN CompileRaised("AttributeError")
    ELSE StreamLoop(kind, Normalized(y).items, 1, <<>>)

\* lines 142-153
VideoOptions(opt) ==
    IF ~Has(opt, "video") THEN Compiled(<<>>)
    ELSE LET x == Get(opt, "video")
         IN  IF ~IsDict(x) THEN CompileRaised("ConverterError")
             ELSE IF ~Has(x, "codec") THEN CompileRaised("ConverterError")
             ELSE IF ~IsVideoCodec(Get(x, "codec")) THEN CompileRaised("ConverterError")
             ELSE VideoCompile(Get(x, "codec"), x)

\* line 156, with the audio list before the video list
AggregateAudioFirst(video, audio, subtitle, format) ==
    audio \o video \o subtitle \o format

\* line 156: optlist = video_options + audio_options + subtitle_options + format_options
Aggregate(video, audio, subtitle, format) ==
    video \o audio \o subtitle \o format

\* lines 158-161; True == 1 in Python, so a twopass of True is pass 1
PassFlags(tp) ==
    IF tp = 1 THEN <<"-pass", "1">>
    ELSE IF tp = 2 THEN <<"-pass", "2">>
    ELSE <<>>

parse_options(opt, tp) ==
    IF ~IsDict(opt) THEN ParseRaised("ConverterError", opt)
    ELSE IF ~Has(opt, "format") THEN ParseRaised("ConverterError", opt)
    ELSE IF ~IsFormat(Get(opt, "format")) THEN ParseRaised("ConverterError", opt)
    ELSE IF ~Has(opt, "audio") /\ ~Has(opt, "video") /\ ~Has(opt, "subtitle")
    THEN ParseRaised("ConverterError", opt)
    ELSE LET o == FillDefaults(opt)
             audio == StreamOptions("audio", Get(o, "audio"))
             subtitle == StreamOptions("subtitle", Get(o, "subtitle"))
             video == VideoOptions(o)
         IN  IF audio.raised # "none" THEN ParseRaised(audio.raised, o)
             ELSE IF subtitle.raised # "none" THEN ParseRaised(subtitle.raised, o)
             ELSE IF video.raised # "none" THEN ParseRaised(video.raised, o)
             ELSE Parsed(Aggregate(video.list, audio.list, subtitle.list,
                                   FormatCompile(Get(o, "format")))
                         \o PassFlags(tp), o)

(***************************************************************************)
(* The requests the model hands to parse_options and convert.              *)
(***************************************************************************)
\* marks a key the request does not have (not a Python value)
Absent == [t |-> "absent"]

\* the dict with the given items, without the absent ones
DictOf(items) == StrDict(SelectSeq(items, LAMBDA it : it[2] # Absent))

CodecSpec(c) == StrDict(<< <<"codec", PyStr(c)>> >>)

AudioSpecs ==
    { NullSpec, CodecSpec("copy"), CodecSpec("aac"), CodecSpec("bogus"),
      StrDict(<< <<"codec", PyStr("vorbis")>>, <<"channels", PyInt(1)>>,
                <<"bitrate", PyStr("64")>> >>),
      StrDict(<< <<"codec", PyStr("mp3")>>, <<"channels", PyInt(20)>>,
                <<"bitrate", PyInt(1)>>, <<"samplerate", PyStr("w00t")>> >>),
      StrDict(<< <<"channels", PyInt(1)>> >>),
      StrDict(<< <<"codec", PyStr("mp3")>>, <<"path", PyStr("a.mp3")>> >>),
      StrDict(<< <<"codec", PyStr("mp3")>>, <<"source", PyInt(1)>> >>),
      StrDict(<< <<"codec", PyStr("mp2")>>, <<"path", PyStr("a.mp3")>>,
                <<"source", PyInt(1)>> >>) }

\* the specs used as entries of a mapping ordinal -> spec
EntrySpecs == { CodecSpec("copy"), CodecSpec("aac"), CodecSpec("bogus") }

\* the sequences of distinct stream ordinals, in every insertion order
OrdinalOrders ==
    UNION { { o \in [1 .. n -> 0 .. MaxStreams - 1] :
                \A i, j \in 1 .. n : i # j => o[i] # o[j] } : n \in 1 .. MaxStreams }

Mappings(specs) ==
    UNION { { PyDict([i \in 1 .. Len(o) |-> <<PyInt(o[i]), e[i]>>]) :
                e \in [1 .. Len(o) -> specs] } : o \in OrdinalOrders }

AudioValues ==
    {Absent, PyDict(<<>>), PyStr("whatever")} \cup AudioSpecs \cup Mappings(EntrySpecs)

SubtitleValues ==
    {Absent, NullSpec, CodecSpec("srt"), PyDict(<<>>)} \cup Mappings({NullSpec})

VideoSize(c, w, h, mode) ==
    StrDict(<< <<"codec", PyStr(c)>>, <<"width", PyInt(w)>>, <<"height", PyInt(h)>>,
              <<"mode", PyStr(mode)>> >>)

VideoSpecs ==
    { NullSpec, CodecSpec("copy"), CodecSpec("bogus"),
      StrDict(<< <<"fps", PyInt(25)>> >>),
      StrDict(<< <<"codec", PyStr("theora")>>, <<"fps", PyStr("25")>>,
                <<"bitrate", PyInt(1)>> >>),
      VideoSize("h264", 16, 18, "crop"),
      VideoSize("mpeg1", 19, 16, "pad"),
      VideoSize("vp8", 19, 16, "crop") }

VideoValues == {Absent, PyStr("whatever")} \cup VideoSpecs

FormatValues == {Absent, PyStr("ogg"), PyStr("foo")}

Request(f, a, v, s) ==
    DictOf(<< <<"format", f>>, <<"audio", a>>, <<"video", v>>, <<"subtitle", s>> >>)

\* twopass as parse_options sees it: 0 stands for None and False
PassValues == {0, 1, 2}

(***************************************************************************)
(* SpecParse: a call of Converter.parse_options(opt, twopass) and, when it  *)
(* returned, a second call with the same arguments.                        *)
(***************************************************************************)
NotParsed == [raised |-> "pending", optlist |-> <<>>]

InitParse ==
    /\ \/ preq = PyNone
       \/ \E f \in FormatValues, a \in AudioValues, v \in VideoValues,
             s \in SubtitleValues : preq = Request(f, a, v, s)
    /\ preq0 = preq
    /\ ppass \in PassValues
    /\ pret = NotParsed
    /\ pret2 = NotParsed
    /\ GeomIdle
    /\ CodecIdle
    /\ ConvertIdle

\* what parse_options returns (or raises) on the dict the caller holds now
CallResult == parse_options(preq, ppass)

ParseOptionsCall ==
    /\ pret = NotParsed
    /\ pret' = [raised |-> CallResult.raised, optlist |-> CallResult.optlist]
    /\ preq' = CallResult.opt
    /\ UNCHANGED <<preq0, ppass, pret2, gvars, cvars, kvars>>

\* the caller hands the same dict object and the same pass number to
\* parse_options once more.  The codec classes keep no state between calls:
\* every compiler builds a new list, and AacCodec's class attribute
\* aac_experimental_enable is only read (optlist.extend copies its items).
ParseOptionsAgain ==
    /\ pret.raised = "none"
    /\ pret2 = NotParsed
    /\ pret2' = [raised |-> CallResult.raised, optlist |-> CallResult.optlist]
    /\ preq' = CallResult.opt
    /\ UNCHANGED <<preq0, ppass, pret, gvars, cvars, kvars>>

NextParse == ParseOptionsCall \/ ParseOptionsAgain

SpecParse == InitParse /\ [][NextParse]_vars

ParseReturned == pret.raised = "none"

\* the flags each group of arguments is made of
VideoFlags ==
    {"-vcodec", "-vn", "-r", "-vb", "-s", "-aspect", "-vf", "-qscale:v", "-preset",
     "-crf", "-profile", "-tune"}

AudioFlags == {"-acodec", "-an", "-ac", "-ab", "-ar", "-qscale:a", "-strict"}

SubtitleFlags == {"-sn"}

\* the group a token opens: 1 video, 2 audio, 3 subtitle, 4 format, 5 pass;
\* 0 for the value that follows a flag
GroupOf(tok) ==
    IF tok \in VideoFlags THEN 1
    ELSE IF tok \in AudioFlags THEN 2
    ELSE IF tok \in SubtitleFlags THEN 3
    ELSE IF tok = "-f" THEN 4
    ELSE IF tok = "-pass" THEN 5
    ELSE 0

Tokens(list) == {list[i] : i \in 1 .. Len(list)}

IsPrefix(p, list) == Len(p) <= Len(list) /\ SubSeq(list, 1, Len(p)) = p

IsSuffix(p, list) ==
    Len(p) <= Len(list) /\ SubSeq(list, Len(list) - Len(p) + 1, Len(list)) = p

ParseCalled == pret.raised # "pending"

\* x is a dict with a 'codec' key naming a codec of the given kind
GoodSpec(kind, x) ==
    /\ IsDict(x)
    /\ Has(x, "codec")
    /\ IF kind = "audio" THEN IsAudioCodec(Get(x, "codec"))
       ELSE IF kind = "video" THEN IsVideoCodec(Get(x, "codec"))
       ELSE IsSubtitleCodec(Get(x, "codec"))

\* v is a mapping of stream ordinals to specs
IsMapping(v) ==
    IsDict(v) /\ Len(v.items) > 0 /\ \A i \in 1 .. Len(v.items) : v.items[i][1].t = "int"

\* the value of the request's key `kind` is a spec of a known codec or, for
\* audio and subtitle, a mapping of such specs
GoodValue(kind, v) ==
    IF kind # "video" /\ IsMapping(v)
    THEN \A i \in 1 .. Len(v.items) : GoodSpec(kind, v.items[i][2])
    ELSE GoodSpec(kind, v)

BadRequest(opt) ==
    \/ ~IsDict(opt)
    \/ ~Has(opt, "format")
    \/ ~IsFormat(Get(opt, "format"))
    \/ Keys(opt) \cap {"audio", "video", "subtitle"} = {}
    \/ \E kind \in Keys(opt) \cap {"audio", "video", "subtitle"} :
          ~GoodValue(kind, Get(opt, kind))

\* C13: Converter.parse_options raises ConverterError and returns no list
\* for every request that is no dict, has no or an unknown format, asks for
\* none of audio, video and subtitle, or carries an audio, video or subtitle
\* value that is not a dict naming a known codec, the empty dict included.
C13_BadRequestRaises ==
    (ParseCalled /\ BadRequest(preq0)) => pret.raised = "ConverterError"

\* C14: a second call of parse_options with the same request object and
\* the same pass number returns the list the first call returned, token for
\* token, for every request the first call accepts.
C14_SecondCallSameList ==
    pret2.raised # "pending" => pret2 = pret

\* the second call returned for a two-pass request with a video spec and no
\* audio or subtitle key, to which the first call added both
C14_Witness ==
    /\ pret2.raised = "none"
    /\ ppass = 2
    /\ Has(preq0, "video") /\ ~Has(preq0, "audio") /\ ~Has(preq0, "subtitle")
    /\ Has(preq, "audio") /\ Has(preq, "subtitle")
    /\ {"-s", "-an", "-sn", "-pass"} \subseteq Tokens(pret2.optlist)

\* the items of a mapping in ascending order of their ordinals
ByOrdinal(items) ==
    LET ks == {items[i][1].i : i \in 1 .. Len(items)}
        kth(k) == CHOOSE x \in ks : Cardinality({y \in ks : y < x}) = k - 1
    IN  [k \in 1 .. Len(items) |->
            items[CHOOSE i \in 1 .. Len(items) : items[i][1].i = kth(k)]]

\* the outcome of parse_options on the request with `v` under the key kind
OutcomeWith(kind, v) ==
    LET r == parse_options(Put(preq0, kind, v), ppass)
    IN  [raised |-> r.raised, optlist |-> r.optlist]

\* C16: an 'audio' or 'subtitle' value that is a single spec is compiled as
\* the mapping {0: spec}; a mapping of ordinals to specs is compiled entry
\* by entry in ascending order of the ordinals, whatever the order in which
\* its entries were inserted.
C16_OrdinalOrder ==
    ParseCalled =>
        \A kind \in {"audio", "subtitle"} :
            (IsDict(preq0) /\ Has(preq0, kind) /\ IsDict(Get(preq0, kind))
               /\ Len(Get(preq0, kind).items) > 0) =>
                LET v == Get(preq0, kind)
                IN  IF IsMapping(v)
                    THEN pret = OutcomeWith(kind, PyDict(ByOrdinal(v.items)))
                    ELSE pret = OutcomeWith(kind, PyDict(<< <<PyInt(0), v>> >>))

\* how many times the token occurs in the list
Count(list, tok) == Cardinality({i \in 1 .. Len(list) : list[i] = tok})

AudioClass(name) == [base |-> "AudioCodec", codec_name |-> PyStr(name)]

VideoClass(name) == [base |-> "VideoCodec", codec_name |-> PyStr(name)]

AudioNullCodec == [base |-> "AudioNullCodec", codec_name |-> PyNone]

VideoNullCodec == [base |-> "VideoNullCodec", codec_name |-> PyNone]

AudioCopyCodec == [base |-> "AudioCopyCodec", codec_name |-> PyStr("copy")]

VideoCopyCodec == [base |-> "VideoCopyCodec", codec_name |-> PyStr("copy")]

\* audio_codec_list
audio_codec_list ==
    {AudioNullCodec, AudioCopyCodec} \cup {AudioClass(n) : n \in DOMAIN AudioFfmpegName}

\* video_codec_list
video_codec_list ==
    {VideoNullCodec, VideoCopyCodec} \cup {VideoClass(n) : n \in DOMAIN VideoFfmpegName}

\* BaseCodec.parse_options, lines 13-16: the exception it raises
BaseCodec_parse_options(codec_name, opt) ==
    IF ~Has(opt, "codec") THEN "ValueError"
    ELSE IF Get(opt, "codec") # codec_name THEN "ValueError"
    ELSE "none"

\* cls().parse_options(opt): the null and copy classes override the base
\* method and return their list; AudioCodec and VideoCodec call it first
class_parse_options(cls, opt) ==
    IF cls.base = "AudioNullCodec" THEN Compiled(<<"-an">>)
    ELSE IF cls.base = "VideoNullCodec" THEN Compiled(<<"-vn">>)
    ELSE IF cls.base = "AudioCopyCodec" THEN Compiled(<<"-acodec", "copy">>)
    ELSE IF cls.base = "VideoCopyCodec" THEN Compiled(<<"-vcodec", "copy">>)
    ELSE IF BaseCodec_parse_options(cls.codec_name, opt) # "none"
    THEN CompileRaised(BaseCodec_parse_options(cls.codec_name, opt))
    ELSE IF cls.base = "AudioCodec"
    THEN Compiled(AudioCodec_parse_options(cls.codec_name.s, opt))
    ELSE VideoCodec_parse_options(cls.codec_name.s, opt)

\* the values of an int option around the range lo..hi, and values int()
\* turns into a number, rejects, or cannot take
AroundRange(lo, hi) ==
    {Absent, PyInt(lo - 1), PyInt(lo), PyInt(hi), PyInt(hi + 1), PyStr("w00t"), PyNone}

CodecValues(cls) == {Absent, PyNone, cls.codec_name, PyStr("bogus")}

AudioOptionMaps(cls) ==
    { DictOf(<< <<"codec", c>>, <<"channels", ch>>, <<"bitrate", br>>,
               <<"samplerate", sr>>, <<"foo", foo>> >>) :
        c \in CodecValues(cls),
        ch \in AroundRange(MinChannels, MaxChannels) \cup {PyStr("1")},
        br \in AroundRange(MinAudioBitrate, MaxAudioBitrate) \cup {PyStr("64")},
        sr \in AroundRange(MinSamplerate, MaxSamplerate),
        foo \in {Absent, PyInt(1)} }

VideoRateMaps(cls) ==
    { DictOf(<< <<"codec", c>>, <<"fps", fps>>, <<"bitrate", br>>, <<"foo", foo>> >>) :
        c \in CodecValues(cls),
        fps \in AroundRange(MinFps, MaxFps) \cup {PyStr("25")},
        br \in AroundRange(MinVideoBitrate, MaxVideoBitrate) \cup {PyStr("64")},
        foo \in {Absent, PyInt(1)} }

\* 0 stands for a dimension that is not given
DimValue(d) == IF d = 0 THEN Absent ELSE PyInt(d)

\* the source size is absent, or both its dimensions are given (0 included)
SourceSizeValues ==
    {<<Absent, Absent>>} \cup {<<PyInt(sw), PyInt(sh)>> : sw \in SourceDims, sh \in SourceDims}

VideoGeometryMaps(cls) ==
    { DictOf(<< <<"codec", cls.codec_name>>, <<"width", DimValue(w)>>,
               <<"height", DimValue(h)>>, <<"src_width", src[1]>>,
               <<"src_height", src[2]>>, <<"mode", mode>> >>) :
        w \in TargetWidths \cup {MinWidth - 1},
        h \in TargetHeights \cup {MinHeight - 1},
        src \in SourceSizeValues,
        mode \in {Absent, PyStr("bogus")} \cup {PyStr(m) : m \in Modes} }

\* the classes whose geometry the model explores: a plain VideoCodec
\* subclass and the two MpegCodec subclasses
GeometryClasses == {VideoClass("vp8"), VideoClass("mpeg1"), VideoClass("mpeg2")}

NotCompiled == [raised |-> "pending", list |-> <<>>]

InitCodec ==
    /\ \/ \E cls \in audio_codec_list : \E opt \in AudioOptionMaps(cls) :
             kcall = [cls |-> cls, opt |-> opt]
       \/ \E cls \in video_codec_list : \E opt \in VideoRateMaps(cls) :
             kcall = [cls |-> cls, opt |-> opt]
       \/ \E cls \in GeometryClasses : \E opt \in VideoGeometryMaps(cls) :
             kcall = [cls |-> cls, opt |-> opt]
    /\ kret = NotCompiled
    /\ GeomIdle
    /\ ParseIdle
    /\ ConvertIdle

CodecParseOptions ==
    /\ kret = NotCompiled
    /\ kret' = class_parse_options(kcall.cls, kcall.opt)
    /\ UNCHANGED <<kcall, gvars, pvars, cvars>>

NextCodec == CodecParseOptions

SpecCodec == InitCodec /\ [][NextCodec]_vars

CodecCalled == kret.raised # "pending"

CodecReturned == kret.raised = "none"

\* the options of AudioCodec and VideoCodec that have a range, each with its
\* flag, its inclusive range and the suffix of the emitted value
RangedOptions(base) ==
    IF base = "AudioCodec"
    THEN { <<"channels", "-ac", MinChannels, MaxChannels, "">>,
           <<"bitrate", "-ab", MinAudioBitrate, MaxAudioBitrate, "k">>,
           <<"samplerate", "-ar", MinSamplerate, MaxSamplerate, "">> }
    ELSE { <<"fps", "-r", MinFps, MaxFps, "">>,
           <<"bitrate", "-vb", MinVideoBitrate, MaxVideoBitrate, "k">> }

\* the option ro of the map is given, coerces to an int, and lies in range
InRange(opt, ro) ==
    /\ Has(opt, ro[1])
    /\ Coercible("int", Get(opt, ro[1]))
    /\ Coerce("int", Get(opt, ro[1])) \in ro[3] .. ro[4]

\* the values that follow the flag in the list
FlagValues(list, flag) == {list[i + 1] : i \in {j \in 1 .. Len(list) - 1 : list[j] = flag}}

\* the option map without the keys ks
Without(opt, ks) == PyDict(SelectSeq(opt.items, LAMBDA it : it[1].s \notin ks))

\* the keys of the map that are unrecognised, or ranged and not in range
DroppedKeys(base, opt) ==
    (Keys(opt) \ DOMAIN (IF base = "AudioCodec" THEN AudioEncoderOptions
                         ELSE VideoEncoderOptions))
    \cup {ro[1] : ro \in {r \in RangedOptions(base) : Has(opt, r[1]) /\ ~InRange(opt, r)}}

NamedCodecCall ==
    /\ CodecCalled
    /\ kcall.cls.base \in {"AudioCodec", "VideoCodec"}
    /\ Has(kcall.opt, "codec")
    /\ Get(kcall.opt, "codec") = kcall.cls.codec_name

\* C11: in AudioCodec.parse_options and VideoCodec.parse_options an option
\* that is unrecognised, not coercible or out of range is dropped without an
\* error: the flag of channels, audio bitrate, sample rate, fps and video
\* bitrate is emitted, once and with the coerced value, if and only if that
\* value lies in 1..12, 8..512, 1000..50000, 1..120, 16..15000, and the
\* call ends exactly as the call on the map without the dropped options.
C11_OutOfRangeDropped ==
    NamedCodecCall =>
        LET base == kcall.cls.base
            opt == kcall.opt
        IN  /\ Keys(opt) \cap {"width", "height"} = {} => CodecReturned
            /\ CodecReturned =>
                  \A ro \in RangedOptions(base) :
                      FlagValues(kret.list, ro[2]) =
                          IF InRange(opt, ro)
                          THEN {ToString(Coerce("int", Get(opt, ro[1]))) \o ro[5]}
                          ELSE {}
            /\ kret = class_parse_options(kcall.cls, Without(opt, DroppedKeys(base, opt)))

\* an audio call with channels above the range, a bitrate given as a
\* numeral, a sample rate that is no number and an unknown option: only the
\* bitrate is emitted
C11_Witness ==
    /\ NamedCodecCall /\ CodecReturned
    /\ kcall.cls.base = "AudioCodec"
    /\ {"foo", "channels", "bitrate", "samplerate"} \subseteq Keys(kcall.opt)
    /\ Get(kcall.opt, "channels") = PyInt(MaxChannels + 1)
    /\ Get(kcall.opt, "bitrate") = PyStr("64")
    /\ Get(kcall.opt, "samplerate") = PyStr("w00t")
    /\ kret.list = <<"-acodec", AudioFfmpegName[kcall.cls.codec_name.s], "-ab", "64k">>

\* the map names the class's own codec
NamesOwnCodec ==
    Has(kcall.opt, "codec") /\ Get(kcall.opt, "codec") = kcall.cls.codec_name

\* C12: every compiler of audio_codec_list and video_codec_list, the null
\* and copy classes included, raises when the option map has no 'codec' key
\* or names another codec, and returns a list only when the map names the
\* compiler's own codec_name.
C12_CodecNameChecked ==
    CodecCalled =>
        /\ ~NamesOwnCodec => kret.raised = "ValueError"
        /\ CodecReturned => NamesOwnCodec

\* the int under the key k of the call's option map, 0 when it is not given
GivenInt(k) == IF Has(kcall.opt, k) THEN Get(kcall.opt, k).i ELSE 0

\* the requested width and height that pass the range tests, 0 otherwise
GivenWidth == IF GivenInt("width") \in MinWidth .. MaxWidth THEN GivenInt("width") ELSE 0

GivenHeight == IF GivenInt("height") \in MinHeight .. MaxHeight THEN GivenInt("height") ELSE 0

SourceKnown == GivenInt("src_width") # 0 /\ GivenInt("src_height") # 0

\* a VideoCodec call with a known source size and exactly one target
\* dimension in range
SingleDimensionCall ==
    /\ NamedCodecCall
    /\ kcall.cls.base = "VideoCodec"
    /\ SourceKnown
    /\ (GivenWidth # 0) # (GivenHeight # 0)

\* C18: with both source dimensions non-zero and exactly one in-range target
\* dimension, VideoCodec.parse_options derives the other by truncating
\* division (floor(w*sh/sw) or floor(h*sw/sh)), emits '-s' with the given
\* and the derived dimension, and emits neither '-aspect' nor '-vf', in
\* every mode.
C18_SingleDimensionDerived ==
    SingleDimensionCall =>
        LET sw == GivenInt("src_width")
            sh == GivenInt("src_height")
            W == IF GivenWidth # 0 THEN GivenWidth ELSE (GivenHeight * sw) \div sh
            H == IF GivenHeight # 0 THEN GivenHeight ELSE (GivenWidth * sh) \div sw
        IN  /\ CodecReturned
            /\ FlagValues(kret.list, "-s") = {Pair(W, "x", H)}
            /\ Count(kret.list, "-s") = 1
            /\ Count(kret.list, "-aspect") = 0
            /\ Count(kret.list, "-vf") = 0

\* the mode the call asks for, 'stretch' when it names none of the three
GivenMode ==
    IF Has(kcall.opt, "mode") /\ Get(kcall.opt, "mode").t = "str"
          /\ Get(kcall.opt, "mode").s \in Modes
    THEN Get(kcall.opt, "mode").s ELSE "stretch"

\* what the geometry step returns for the call
ResolvedGeometry ==
    aspect_corrections(IF SourceKnown THEN GivenInt("src_width") ELSE 0,
                       IF SourceKnown THEN GivenInt("src_height") ELSE 0,
                       GivenWidth, GivenHeight, GivenMode)

MpegCall ==
    /\ NamedCodecCall
    /\ kcall.cls.base = "VideoCodec"
    /\ kcall.cls.codec_name.s \in MpegFamily

\* C19: whenever an MPEG-1 or MPEG-2 compiler resolves a non-zero width and
\* height, its list holds exactly one '-vf', whose value is 'aspect=W:H'
\* with the W and H emitted after '-s', followed after a comma by the crop
\* or pad filter when the geometry step produced one.
C19_MpegAspectFirst ==
    (MpegCall /\ CodecReturned /\ ResolvedGeometry.w # 0 /\ ResolvedGeometry.h # 0) =>
        LET g == ResolvedGeometry
            aspect == "aspect=" \o ToString(g.w) \o ":" \o ToString(g.h)
        IN  /\ Count(kret.list, "-s") = 1
            /\ FlagValues(kret.list, "-s") = {ToString(g.w) \o "x" \o ToString(g.h)}
            /\ Count(kret.list, "-vf") = 1
            /\ FlagValues(kret.list, "-vf") =
                  {IF g.filters = NoFilter THEN aspect
                   ELSE aspect \o "," \o FilterString(g.filters)}

\* an MPEG call in pad mode whose geometry step produced a pad filter
C19_Witness ==
    /\ MpegCall /\ CodecReturned
    /\ ResolvedGeometry.filters.name = "pad"
    /\ Count(kret.list, "-vf") = 1
    /\ Count(kret.list, "-aspect") = 1

\* C20: every size VideoCodec.parse_options emits after '-s' keeps the
\* bounds of the requested dimensions, 16 <= W <= 4000 and 16 <= H <= 3000,
\* also when a dimension is derived from the source aspect or is the crop
\* intermediate.
C20_EmittedSizeInBounds ==
    (NamedCodecCall /\ kcall.cls.base = "VideoCodec" /\ CodecReturned) =>
        /\ FlagValues(kret.list, "-s") # {} =>
              /\ ResolvedGeometry.w \in MinWidth .. MaxWidth
              /\ ResolvedGeometry.h \in MinHeight .. MaxHeight
              /\ FlagValues(kret.list, "-s") =
                    {ToString(ResolvedGeometry.w) \o "x" \o ToString(ResolvedGeometry.h)}

(***************************************************************************)
(* Spec: the generator Converter.convert(infile, outfile, options,         *)
(* twopass), advanced by its consumer.  Time is counted in ticks of 5 ms:  *)
(* the duration the probe reports and the elapsed time the engine reports  *)
(* are whole numbers of ticks, and 0.01 s is MinDuration ticks.            *)
(*                                                                         *)
(* converter/ffmpeg.py is not among the sources.  FFMpeg.probe and         *)
(* FFMpeg.convert are modelled from the specification: the probe spawns    *)
(* the prober and returns the media information or None; convert spawns   *)
(* the engine and yields the elapsed time of each progress line; it raises *)
(* FFMpegConvertError when the engine exits with a nonzero status, when it *)
(* exits without any progress line, and on the next consumption after the *)
(* process was terminated.  The elapsed time an engine reports does not go *)
(* back within one invocation; it is not bounded by the probed duration.   *)
(***************************************************************************)
MinDuration == 2

NoInfo ==
    [present |-> FALSE, video |-> FALSE, width |-> 0, height |-> 0,
     audio |-> FALSE, duration |-> 0]

\* the sizes of the video stream of a probed source
SourceSizes == {<<4, 3>>}

\* what FFMpeg.probe can return
ProbeResults ==
    {NoInfo}
    \cup { [present |-> TRUE, video |-> FALSE, width |-> 0, height |-> 0,
            audio |-> a, duration |-> d] : a \in BOOLEAN, d \in 0 .. MaxDuration }
    \cup { [present |-> TRUE, video |-> TRUE, width |-> z[1], height |-> z[2],
            audio |-> a, duration |-> d] :
              z \in SourceSizes, a \in BOOLEAN, d \in 0 .. MaxDuration }

\* the options dicts handed to convert
ConvertRequests ==
    { PyNone,
      Request(PyStr("ogg"), CodecSpec("vorbis"), VideoSize("theora", 16, 18, "crop"), Absent),
      Request(PyStr("mp3"), CodecSpec("mp3"), Absent, Absent),
      Request(PyStr("ogg"), Absent, CodecSpec("theora"), Absent),
      Request(PyStr("ogg"), CodecSpec("copy"), CodecSpec("copy"), NullSpec),
      Request(Absent, CodecSpec("vorbis"), CodecSpec("theora"), Absent),
      Request(PyStr("foo"), CodecSpec("vorbis"), CodecSpec("theora"), Absent),
      Request(PyStr("ogg"), CodecSpec("bogus"), Absent, Absent),
      Request(PyStr("ogg"), Absent, CodecSpec("bogus"), Absent),
      Request(PyStr("ogg"), CodecSpec("vorbis"), Absent, CodecSpec("bogus")),
      Request(PyStr("ogg"), Absent, StrDict(<< <<"fps", PyInt(25)>> >>), Absent),
      Request(PyStr("ogg"),
              StrDict(<< <<"codec", PyStr("mp3")>>, <<"path", PyStr("a.mp3")>> >>),
              Absent, Absent),
      Request(PyStr("ogg"),
              StrDict(<< <<"codec", PyStr("mp3")>>, <<"source", PyInt(1)>> >>),
              Absent, Absent),
      Request(PyStr("ogg"), Absent, Absent, Absent),
      Request(PyStr("ogg"), Absent, PyStr("whatever"), Absent) }

NoEngine == [state |-> "none", last |-> 0, yielded |-> FALSE, killedAfter |-> 0]

Init ==
    /\ pc = "options"
    /\ caller \in ConvertRequests
    /\ caller0 = caller
    /\ options = caller
    /\ aliased = TRUE
    /\ twopass \in BOOLEAN
    /\ exists \in BOOLEAN
    /\ info = NoInfo
    /\ curpass = 0
    /\ spawns = <<>>
    /\ optlists = <<>>
    /\ engine = NoEngine
    /\ yields = <<>>
    /\ raised = "none"
    /\ raisedAt = "none"
    /\ GeomIdle
    /\ ParseIdle
    /\ CodecIdle

\* the exception exc leaves the generator at statement `at`
Raise(exc, at) ==
    /\ pc' = "raised"
    /\ raised' = exc
    /\ raisedAt' = at

NoRaise == UNCHANGED <<raised, raisedAt>>

\* lines 208-209
CheckOptions ==
    /\ pc = "options"
    /\ IF ~IsDict(options)
       THEN Raise("ConverterError", "options")
       ELSE pc' = "exists" /\ NoRaise
    /\ UNCHANGED <<caller, caller0, options, aliased, twopass, exists, info,
                   curpass, spawns, optlists, engine, yields, gvars, pvars, kvars>>

\* lines 211-212
CheckExists ==
    /\ pc = "exists"
    /\ IF ~exists
       THEN Raise("ConverterError", "exists")
       ELSE pc' = "probe" /\ NoRaise
    /\ UNCHANGED <<caller, caller0, options, aliased, twopass, exists, info,
                   curpass, spawns, optlists, engine, yields, gvars, pvars, kvars>>

\* lines 214-216: the probe runs the prober subprocess
Probe ==
    /\ pc = "probe"
    /\ \E r \in ProbeResults :
          /\ info' = r
          /\ spawns' = Append(spawns, "probe")
          /\ IF ~r.present
             THEN Raise("ConverterError", "probe")
             ELSE pc' = "streams" /\ NoRaise
    /\ UNCHANGED <<caller, caller0, options, aliased, twopass, exists, curpass,
                   optlists, engine, yields, gvars, pvars, kvars>>

\* `not info.video and info.audio`
NoStreamsWithAudio(i) == ~i.video /\ i.audio

\* line 218: `not info.video and not info.audio`
NoStreams(i) == ~i.video /\ ~i.audio

\* lines 218-219
CheckStreams ==
    /\ pc = "streams"
    /\ IF NoStreams(info)
       THEN Raise("ConverterError", "streams")
       ELSE pc' = "copy" /\ NoRaise
    /\ UNCHANGED <<caller, caller0, options, aliased, twopass, exists, info,
                   curpass, spawns, optlists, engine, yields, gvars, pvars, kvars>>

\* lines 222-225: options.copy() with a copy of options['video'] that carries
\* the source size
WithSourceSize(opts, i) ==
    Put(opts, "video",
        Put(Put(Get(opts, "video"), "src_width", PyInt(i.width)),
            "src_height", PyInt(i.height)))

\* lines 221-225; .copy() of a value that is no dict raises AttributeError
CopyOptions ==
    /\ pc = "copy"
    /\ IF info.video /\ Has(options, "video")
       THEN IF ~IsDict(Get(options, "video"))
            THEN /\ Raise("AttributeError", "copy")
                 /\ UNCHANGED <<options, aliased>>
            ELSE /\ options' = WithSourceSize(options, info)
                 /\ aliased' = FALSE
                 /\ pc' = "duration"
                 /\ NoRaise
       ELSE /\ pc' = "duration"
            /\ NoRaise
            /\ UNCHANGED <<options, aliased>>
    /\ UNCHANGED <<caller, caller0, twopass, exists, info, curpass, spawns,
                   optlists, engine, yields, gvars, pvars, kvars>>

\* the statements of lines 230-244 with the spawn ahead of the compilation
StepOrderSpawnFirst == <<"spawn", "compile", "stream">>

\* the statements of lines 230-244 that set a pass going, in order:
\* parse_options, then ffmpeg.convert (which spawns), then the loop
StepOrder == <<"compile", "spawn", "stream">>

StepAfter(p) == StepOrder[(CHOOSE k \in 1 .. Len(StepOrder) : StepOrder[k] = p) + 1]

\* lines 227-230
CheckDuration ==
    /\ pc = "duration"
    /\ IF info.duration < MinDuration
       THEN Raise("ConverterError", "duration") /\ UNCHANGED curpass
       ELSE /\ pc' = StepOrder[1]
            /\ curpass' = IF twopass THEN 1 ELSE 0
            /\ NoRaise
    /\ UNCHANGED <<caller, caller0, options, aliased, twopass, exists, info,
                   spawns, optlists, engine, yields, gvars, pvars, kvars>>

\* lines 231, 236, 241: self.parse_options(options, 1 | 2 | twopass); what
\* parse_options assigns to `options` shows in the caller's dict when the two
\* are one object
Compile ==
    /\ pc = "compile"
    /\ LET r == parse_options(options, curpass)
       IN  /\ options' = r.opt
           /\ caller' = IF aliased THEN r.opt ELSE caller
           /\ IF r.raised # "none"
              THEN Raise(r.raised, "compile") /\ UNCHANGED optlists
              ELSE /\ optlists' = Append(optlists, r.optlist)
                   /\ pc' = StepAfter("compile")
                   /\ NoRaise
    /\ UNCHANGED <<caller0, aliased, twopass, exists, info, curpass, spawns,
                   engine, yields, gvars, pvars, kvars>>

EngineName(p) == IF p = 0 THEN "single" ELSE IF p = 1 THEN "pass1" ELSE "pass2"

\* lines 232, 237, 242: the first step of ffmpeg.convert spawns the engine
Spawn ==
    /\ pc = "spawn"
    /\ spawns' = Append(spawns, EngineName(curpass))
    /\ engine' = [state |-> "running", last |-> 0, yielded |-> FALSE, killedAfter |-> 0]
    /\ pc' = StepAfter("spawn")
    /\ NoRaise
    /\ UNCHANGED <<caller, caller0, options, aliased, twopass, exists, info,
                   curpass, optlists, yields, gvars, pvars, kvars>>

\* lines 234, 239, 244: int((50.0 * timecode) / duration),
\* int(50.0 + (50.0 * timecode) / duration), int((100.0 * timecode) / duration)
Percent(p, timecode, duration) ==
    IF p = 1 THEN (50 * timecode) \div duration
    ELSE IF p = 2 THEN 50 + (50 * timecode) \div duration
    ELSE (100 * timecode) \div duration

\* the engine prints a progress line; ffmpeg.convert yields its elapsed time
\* and convert yields the percentage
EngineProgress ==
    /\ pc = "stream"
    /\ engine.state = "running"
    /\ Len(yields) < MaxYields
    /\ \E t \in engine.last .. MaxTime :
          /\ engine' = [engine EXCEPT !.last = t, !.yielded = TRUE]
          /\ yields' = Append(yields, [pass |-> curpass,
                                      pct |-> Percent(curpass, t, info.duration)])
    /\ UNCHANGED <<pc, caller, caller0, options, aliased, twopass, exists, info,
                   curpass, spawns, optlists, raised, raisedAt, gvars, pvars, kvars>>

\* an exception of ffmpeg.convert caught and dropped by convert
OnEngineErrorSwallowed(exc) == [pc |-> "done", raised |-> "none", raisedAt |-> "none"]

\* lines 232-244: nothing in convert catches what ffmpeg.convert raises
OnEngineError(exc) == [pc |-> "raised", raised |-> exc, raisedAt |-> "engine"]

EngineRaises(exc) ==
    /\ pc' = OnEngineError(exc).pc
    /\ raised' = OnEngineError(exc).raised
    /\ raisedAt' = OnEngineError(exc).raisedAt

\* the engine exits: ffmpeg.convert ends, or raises when the status is not 0
\* or no progress was seen; after pass one convert goes on to line 236
EngineExit ==
    /\ pc = "stream"
    /\ engine.state = "running"
    /\ \E status \in {0, 1} :
          IF status # 0 \/ ~engine.yielded
          THEN /\ EngineRaises("FFMpegConvertError")
               /\ engine' = [engine EXCEPT !.state = "failed"]
               /\ UNCHANGED curpass
          ELSE /\ engine' = [engine EXCEPT !.state = "exited"]
               /\ NoRaise
               /\ IF twopass /\ curpass = 1
                  THEN pc' = StepOrder[1] /\ curpass' = 2
                  ELSE pc' = "done" /\ UNCHANGED curpass
    /\ UNCHANGED <<caller, caller0, options, aliased, twopass, exists, info,
                   spawns, optlists, yields, gvars, pvars, kvars>>

\* the consumer, holding a progress value, terminates the engine process
Terminate ==
    /\ pc = "stream"
    /\ engine.state = "running"
    /\ engine.yielded
    /\ engine' = [engine EXCEPT !.state = "killed", !.killedAfter = Len(yields)]
    /\ UNCHANGED <<pc, caller, caller0, options, aliased, twopass, exists, info,
                   curpass, spawns, optlists, yields, raised, raisedAt, gvars, pvars, kvars>>

\* the consumer asks for the next value of a conversion it terminated
ConsumeTerminated ==
    /\ pc = "stream"
    /\ engine.state = "killed"
    /\ EngineRaises("FFMpegConvertError")
    /\ UNCHANGED <<caller, caller0, options, aliased, twopass, exists, info,
                   curpass, spawns, optlists, engine, yields, gvars, pvars, kvars>>

Next ==
    \/ CheckOptions
    \/ CheckExists
    \/ Probe
    \/ CheckStreams
    \/ CopyOptions
    \/ CheckDuration
    \/ Compile
    \/ Spawn
    \/ EngineProgress
    \/ EngineExit
    \/ Terminate
    \/ ConsumeTerminated

Spec == Init /\ [][Next]_vars

\* C1: neither parse_options nor convert changes the caller's options
\* dict: at every point of a conversion, whether it succeeds or raises, the
\* caller's dict and its nested specs hold what they held at the call.
C1_CallerOptionsUnchanged == caller = caller0

\* C3: with a probed duration of at least 0.01 s, every value convert yields
\* is an integer between 0 and 100, whatever elapsed time the engine reports.
C3_PercentInRange ==
    info.duration >= MinDuration =>
        \A i \in 1 .. Len(yields) : yields[i].pct \in 0 .. 100

\* C4: the percentages convert yields never decrease, within a pass and
\* across the boundary between pass one and pass two.
C4_NonDecreasing ==
    \A i \in 1 .. Len(yields) - 1 : yields[i].pct <= yields[i + 1].pct

ConfigErrorRaised == pc = "raised" /\ raised = "ConverterError" /\ raisedAt = "compile"

\* C5 as stated: a configuration error of the request is raised before any
\* subprocess is spawned, the probing subprocess included.
C5_ConfigErrorBeforeAnySpawn == ConfigErrorRaised => spawns = <<>>

\* C5 amended: a configuration error of the request is raised by
\* parse_options after the probing subprocess has been spawned and before
\* any conversion subprocess is spawned.
C5_ConfigErrorBeforeEngineSpawn == ConfigErrorRaised => spawns = <<"probe">>

\* a two-pass conversion of a probed source stopped by a configuration error
C5_Witness ==
    /\ ConfigErrorRaised
    /\ twopass
    /\ info.present /\ info.duration >= MinDuration
    /\ ~Has(caller0, "format")

EngineSpawned == \E i \in 1 .. Len(spawns) : spawns[i] # "probe"

\* C6: a missing source file, an absent probe result, a source with neither
\* a video nor an audio stream and a duration below 0.01 s each raise
\* ConverterError and the engine is never launched for them; the existence
\* check comes before the probe, the stream and duration checks after the
\* probe and before any compilation of the options and any spawn.
C6_InputErrorsBeforeEngine ==
    /\ raisedAt = "exists" => (raised = "ConverterError" /\ spawns = <<>> /\ ~exists)
    /\ raisedAt \in {"probe", "streams", "duration"} =>
          (raised = "ConverterError" /\ spawns = <<"probe">> /\ optlists = <<>>)
    /\ (~exists /\ pc \notin {"options", "exists"}) => raisedAt \in {"options", "exists"}
    /\ (EngineSpawned \/ optlists # <<>>) =>
          /\ exists
          /\ info.present
          /\ info.video \/ info.audio
          /\ info.duration >= MinDuration
          /\ spawns[1] = "probe"

\* a source with a video stream and a duration below 0.01 s was rejected
\* after the probe
C6_Witness ==
    /\ pc = "raised" /\ raisedAt = "duration"
    /\ info.video /\ info.duration < MinDuration /\ info.duration > 0
    /\ spawns = <<"probe">>

\* C7: once the engine has been terminated after a progress value was
\* delivered, no further value is delivered and the sequence does not end as
\* if the conversion had completed: the next consumption raises
\* FFMpegConvertError, which convert passes on; no later pass is started.
C7_TerminationRaises ==
    engine.state = "killed" =>
        /\ pc \in {"stream", "raised"}
        /\ pc = "raised" => (raised = "FFMpegConvertError" /\ raisedAt = "engine")
        /\ Len(yields) = engine.killedAfter
        /\ engine.killedAfter >= 1
        /\ spawns[Len(spawns)] = EngineName(curpass)

\* pass one of a two-pass conversion was terminated and the consumer got
\* the error
C7_Witness ==
    /\ engine.state = "killed"
    /\ twopass /\ curpass = 1
    /\ pc = "raised" /\ raised = "FFMpegConvertError"
    /\ Len(yields) >= 1

\* the engine invocations among the subprocesses spawned so far
EngineSpawns == SelectSeq(spawns, LAMBDA n : n # "probe")

\* pass two was started only after pass one ended without error; every
\* value of pass one was yielded before any value of pass two
TwoPassSequential ==
    /\ EngineSpawns \in {<<>>, <<"pass1">>, <<"pass1", "pass2">>}
    /\ Len(optlists) \in {Len(EngineSpawns), Len(EngineSpawns) + 1}
    /\ \A k \in 1 .. Len(optlists) : IsSuffix(<<"-pass", ToString(k)>>, optlists[k])
    /\ (pc = "raised" /\ curpass = 1) => EngineSpawns # <<"pass1", "pass2">>
    /\ EngineSpawns = <<"pass1", "pass2">> => curpass = 2
    /\ \A i \in 1 .. Len(yields) : yields[i].pass \in {1, 2}
    /\ \A i, j \in 1 .. Len(yields) : i < j => yields[i].pass <= yields[j].pass

\* C15: a two-pass convert is two engine invocations in sequence, pass two
\* (compiled with '-pass 2') started only after pass one (compiled with
\* '-pass 1') ended without error and never after it raised; the values of
\* pass one all come before those of pass two, pass-one values lie in
\* [0,50] and pass-two values in [50,100].
C15_TwoPassHalves ==
    (twopass = TRUE /\ pc \notin {"options", "exists", "probe", "streams", "copy", "duration"}
       /\ raisedAt \notin {"options", "exists", "probe", "streams", "copy", "duration"}) =>
        /\ TwoPassSequential
        /\ \A i \in 1 .. Len(yields) :
              yields[i].pct \in (IF yields[i].pass = 1 THEN 0 .. 50 ELSE 50 .. 100)

====
